---------------------------- MODULE Spec2Model ----------------------------
(***************************************************************************)
(* A model of timsconvert's extraction / streaming core:                   *)
(*   src/timsconvert/parse.py  (classification, array extraction, binning, *)
(*                              record building)                           *)
(*   src/timsconvert/write.py  (chunked mzML serializer, count             *)
(*                              reconciliation)                            *)
(*                                                                         *)
(* Spec      : one LC-MS run of write_lcms_mzml over a TDF acquisition.    *)
(* SpecMerge : extract_2d_tdf_spectrum (raw) / extract_3d_tdf_spectrum.    *)
(* SpecStats : populate_scan_dict_w_spectrum_data.                         *)
(* SpecBin   : bin_profile_spectrum.                                       *)
(***************************************************************************)
EXTENDS Integers, Sequences, FiniteSets, TLC

VARIABLES
    data,            \* the acquisition: Frames table, Precursors table, DIA windows
    cfg,             \* the caller's configuration (mode, ms2_only, ...)
    pc,              \* position in write_lcms_mzml
    chunk,           \* write_lcms_mzml: chunk
    chunk_list,      \* write_lcms_mzml: windows of the current chunk still to write
    j,               \* write_lcms_mzml: loop variable j (0 = unbound)
    scan_count,      \* write_lcms_mzml: scan_count
    num_of_spectra,  \* write_lcms_mzml: num_of_spectra (-1 = not yet computed)
    sink,            \* spectra handed to writer.write_spectrum, in order
    windows,         \* the (frame_start, frame_stop) windows processed so far
    tmp_file,        \* <outfile>_tmp.mzML
    out_file,        \* <outfile>
    fault,           \* the exception that ended the run ("" = none)
    fn               \* state of the pure-function specifications

runVars == <<data, cfg, pc, chunk, chunk_list, j, scan_count, num_of_spectra,
             sink, windows, tmp_file, out_file, fault>>
vars == <<runVars, fn>>

-----------------------------------------------------------------------------
(* Bounds of the model *)
MaxFrames == 3
MaxPrecursors == 2
MaxChunkSize == 2
MaxDiaWindows == 2
MaxPoints == 4        \* points of an input array (stats, binning)
MaxMz == 5            \* m/z values 1..MaxMz (stats, binning)
MaxIntensity == 2     \* intensities 0..MaxIntensity (stats, binning)
MaxBins == 3          \* profile_bins 1..MaxBins
MaxSubScans == 2      \* sub-scans of a frame (merging)
MaxScanPoints == 2    \* peaks of a sub-scan (merging)
MaxScanMz == 2        \* m/z values 1..MaxScanMz (merging)
MaxScanIntensity == 2 \* intensities 1..MaxScanIntensity (merging)
MaxScanBegin == 1     \* scan_begin 0..MaxScanBegin (merging)

-----------------------------------------------------------------------------
(* Small helpers *)
Range(s) == {s[i] : i \in DOMAIN s}

RECURSIVE SumSeq(_)
SumSeq(s) == IF s = <<>> THEN 0 ELSE Head(s) + SumSeq(Tail(s))

\* a file that does not exist; count -1: no spectrumList element written
NoFile == [exists |-> FALSE, count |-> 0 - 1, spectra |-> 0]

-----------------------------------------------------------------------------
(* The metadata provider: acquisitions the Frames table can hold.          *)
(* A frame is its (ScanMode, MsMsType) pair and whether every sub-scan of  *)
(* it decodes to no data.  Frame ids are 1..n, the row index.              *)

\* MsMsType of the fragmentation frames an acquisition of a scan mode holds
Ms2TypeOf(sm) ==
    CASE sm = 8 -> 8      \* ddaPASEF
      [] sm = 9 -> 9      \* diaPASEF
      [] sm = 10 -> 10    \* prmPASEF
      [] sm = 4 -> 2      \* bbCID
      [] sm = 2 -> 2      \* MRM
      [] OTHER -> 2       \* a pair parse_lcms_tdf has no branch for

ScanModes == {0, 1, 2, 4, 8, 9, 10}

FrameSet(sm) ==
    {[ScanMode |-> sm, MsMsType |-> 0, empty |-> e] : e \in BOOLEAN}
    \cup (IF sm = 0 THEN {}
          ELSE {[ScanMode |-> sm, MsMsType |-> Ms2TypeOf(sm), empty |-> e] :
                    e \in (IF sm = 8 THEN {FALSE} ELSE BOOLEAN)})

\* MSMS_TYPE_CATEGORY['ms1']
IsMs1Type(t) == t = 0

\* data.ms1_frames: ids of the frames whose MsMsType is 0, ascending
RECURSIVE Ms1FramesFrom(_, _)
Ms1FramesFrom(fs, i) ==
    IF i > Len(fs) THEN <<>>
    ELSE (IF fs[i].MsMsType = 0 THEN <<i>> ELSE <<>>) \o Ms1FramesFrom(fs, i + 1)

ms1_frames == Ms1FramesFrom(data.frames, 1)

\* Precursors rows: Parent frame, whether the product spectrum decodes to no
\* data, whether MonoisotopicMz is truthy (neither 0 nor None)
\* the value pandas gives a NULL Charge; np.isnan tells it from a charge
NaN == 0 - 1

isnan(x) == x = NaN

Charges == {NaN, 2}

PrecursorSet(fs) ==
    [Parent : {i \in 1..Len(fs) : fs[i].MsMsType = 0},
     empty : BOOLEAN, mono : BOOLEAN, Charge : Charges, ScanNumber : {1}]

\* PrmTargets: the row a prmPASEF frame's PrmFrameMsMsInfo names, by frame id
PrmTargetTables(fs) ==
    IF fs[1].ScanMode # 10 THEN {<<>>}
    ELSE [1..Len(fs) -> [Charge : Charges, OneOverK0 : {1}]]

PrecursorTables(fs) ==
    IF fs[1].ScanMode # 8 THEN {<<>>}
    ELSE UNION {{ps \in [1..n -> PrecursorSet(fs)] :
                    \A a, b \in 1..n : a < b => ps[a].Parent <= ps[b].Parent} :
                n \in 0..MaxPrecursors}

Modes == {"raw", "centroid", "profile"}

Configs ==
    {c \in [mode : Modes, ms2_only : BOOLEAN, exclude_mobility : BOOLEAN,
            profile_bins : {0, 2}, chunk_size : 1..MaxChunkSize] :
        c.profile_bins # 0 => c.mode = "profile"}


-----------------------------------------------------------------------------
(* Faults of the environment.  A run may carry a fault plan in fn: the     *)
(* frame whose decode call the provider answers with a fault, and the scan *)
(* number of the spectrum whose write the sink rejects (0: none).  A run   *)
(* without a plan meets no such fault.                                     *)

ProviderFaultFrame == IF "provider_fault" \in DOMAIN fn THEN fn.provider_fault ELSE 0

SinkFaultScan == IF "sink_fault" \in DOMAIN fn THEN fn.sink_fault ELSE 0

\* a decode call of the provider for a frame: the outcome of the extraction,
\* or the exception the provider raised
Decode(frame, outcome) == IF frame = ProviderFaultFrame THEN "fault" ELSE outcome

\* the decode calls made so far, by frame, when the run keeps the log
LogDecodes(f, decoded) ==
    IF "decoded" \in DOMAIN f THEN [f EXCEPT !.decoded = @ \o decoded] ELSE f

-----------------------------------------------------------------------------
(* Array extraction, reduced to its outcome:                               *)
(*   "data"  non-empty arrays of equal length                              *)
(*   "empty" arrays of size 0                                              *)
(*   "none"  the (None, None) / (None, None, None) return                  *)
(*   "raise" an exception inside the extractor                             *)
(*   "fault" an exception raised by the provider's decode call             *)

KeepExcludeMobility(mode, exclude_mobility) == exclude_mobility

\* get_centroid_status(mode, exclude_mobility)[1]
get_centroid_status(mode, exclude_mobility) ==
    IF mode = "profile" THEN TRUE ELSE exclude_mobility

\* bin_profile_spectrum reads mz_array[0]: IndexError on an empty array
BinOutcome(empty) == IF empty THEN "raise" ELSE "data"

\* extract_2d_tdf_spectrum
extract_2d_outcome(mode, empty, profile_bins) ==
    CASE mode = "raw" -> IF empty THEN "none" ELSE "data"
      [] mode = "profile" ->
            IF profile_bins # 0 THEN BinOutcome(empty)
            ELSE IF empty THEN "empty" ELSE "data"
      [] OTHER -> IF empty THEN "empty" ELSE "data"

\* extract_3d_tdf_spectrum
extract_3d_outcome(empty) == IF empty THEN "none" ELSE "data"

\* extract_ddapasef_precursor_spectrum: reads .size of what extract_2d
\* returned (AttributeError on None), keeps the non-empty windows, returns
\* (None, None) when none is left
extract_ddapasef_outcome(mode, empty, profile_bins) ==
    LET r == extract_2d_outcome(mode, empty, profile_bins)
    IN  CASE r \in {"none", "raise"} -> "raise"
          [] r = "empty" -> "none"
          [] OTHER -> "data"

\* the caller's test  mz_array.size != 0 and ... and mz_array is not None :
\* .size is read first, so None raises AttributeError
SizeTest(r) ==
    CASE r = "data" -> "keep"
      [] r = "empty" -> "drop"
      [] r = "fault" -> "fault"
      [] OTHER -> "raise"

\* the caller's test  mz_array is not None and intensity_array is not None
NoneTest(r) ==
    CASE r = "data" -> "keep"
      [] r = "none" -> "drop"
      [] OTHER -> "raise"

\* the route parse_lcms_tdf takes for MS1, diaPASEF and bbCID frames
extract_frame(mode, exclude_mobility, empty, profile_bins) ==
    IF ~exclude_mobility THEN extract_3d_outcome(empty)
    ELSE extract_2d_outcome(mode, empty, profile_bins)

-----------------------------------------------------------------------------
(* Canonical records, as far as the serializer reads them.  frame and      *)
(* parent_frame 0 stand for None; (kind, src, sub) names the frame and the   *)
(* precursor row or window the record was built from.                      *)
Rec(kind, level, frame, parent_frame, src, sub, mob) ==
    [kind |-> kind, ms_level |-> level, frame |-> frame,
     parent_frame |-> parent_frame, src |-> src, sub |-> sub,
     mobility |-> mob]

\* decoded: the frames of the decode calls made for the records, in order
EmptyParse == [fault |-> "", parents |-> <<>>, products |-> <<>>, decoded |-> <<>>]

\* the ddaPASEF precursor loop of parse_lcms_tdf, from precursor row i on
RECURSIVE ParsePrecursors(_, _, _)
ParsePrecursors(frame, i, acc) ==
    IF i > Len(data.precursors) \/ acc.fault # "" THEN acc
    ELSE IF data.precursors[i].Parent # frame THEN ParsePrecursors(frame, i + 1, acc)
    ELSE LET t == NoneTest(extract_ddapasef_outcome(cfg.mode,
                                                    data.precursors[i].empty,
                                                    cfg.profile_bins))
             nxt == CASE t = "raise" -> [acc EXCEPT !.fault = "extract"]
                      [] t = "keep" ->
                           [acc EXCEPT !.products =
                               Append(@, Rec("ddaPASEF", 2, 0, frame, frame, i, FALSE))]
                      [] OTHER -> acc
         IN  ParsePrecursors(frame, i + 1, nxt)

\* the diaPASEF window loop of parse_lcms_tdf, from window w on
RECURSIVE ParseDiaWindows(_, _, _, _)
ParseDiaWindows(frame, w, excl, acc) ==
    IF w > data.dia_windows \/ acc.fault # "" THEN acc
    ELSE LET t == SizeTest(Decode(frame,
                                  extract_frame(cfg.mode, excl, data.frames[frame].empty,
                                                cfg.profile_bins)))
             a == [acc EXCEPT !.decoded = Append(@, frame)]
             nxt == CASE t = "raise" -> [a EXCEPT !.fault = "extract"]
                      [] t = "fault" -> [a EXCEPT !.fault = "provider"]
                      [] t = "keep" ->
                           [a EXCEPT !.parents =
                               Append(@, Rec("diaPASEF", 2, 0, 0, frame, w, ~excl))]
                      [] OTHER -> a
         IN  ParseDiaWindows(frame, w + 1, excl, nxt)

RejectFrame(acc) == [acc EXCEPT !.fault = "extract"]

\* a frame no branch of the if / elif chain takes: nothing is built
SkipFrame(acc) == acc

\* one iteration of the frame loop of parse_lcms_tdf
ParseTdfFrame(frame, frame_start, frame_stop, ms2_only, acc) ==
    LET f == data.frames[frame]
        excl == get_centroid_status(cfg.mode, cfg.exclude_mobility)
        t3 == SizeTest(Decode(frame, extract_frame(cfg.mode, excl, f.empty,
                                                   cfg.profile_bins)))
        t2 == SizeTest(Decode(frame, extract_2d_outcome(cfg.mode, f.empty,
                                                        cfg.profile_bins)))
        a == [acc EXCEPT !.decoded = Append(@, frame)]
        keep(t, r) == CASE t = "raise" -> [a EXCEPT !.fault = "extract"]
                        [] t = "fault" -> [a EXCEPT !.fault = "provider"]
                        [] t = "keep" -> [a EXCEPT !.parents = Append(@, r)]
                        [] OTHER -> a
    IN  CASE IsMs1Type(f.MsMsType) /\ ~ms2_only ->
               LET a1 == keep(t3, Rec("MS1", 1, frame, 0, frame, 0, ~excl))
               IN  IF a1.fault # "" THEN a1
                   ELSE IF frame_stop - frame_start > 1
                           /\ f.ScanMode = 8 /\ f.MsMsType = 0
                        THEN ParsePrecursors(frame, 1, a1)
                        ELSE a1
          [] f.ScanMode = 9 /\ f.MsMsType = 9 ->
               ParseDiaWindows(frame, 1, excl, acc)
          [] f.ScanMode = 4 /\ f.MsMsType = 2 ->
               keep(t3, Rec("bbCID", 2, frame, 0, frame, 0, ~excl))
          [] f.ScanMode = 2 /\ f.MsMsType = 2 ->
               keep(t2, Rec("MRM", 2, 0, 0, frame, 0, FALSE))
          [] f.ScanMode = 10 /\ f.MsMsType = 10 ->
               keep(t2, Rec("prmPASEF", 2, 0, 0, frame, 0, FALSE))
          [] OTHER -> SkipFrame(acc)

RECURSIVE ParseOnAfterFault(_, _, _, _, _)
ParseOnAfterFault(frame, frame_start, frame_stop, ms2_only, acc) ==
    IF frame >= frame_stop THEN acc
    ELSE ParseOnAfterFault(frame + 1, frame_start, frame_stop, ms2_only,
                           ParseTdfFrame(frame, frame_start, frame_stop, ms2_only, acc))

\* parse_lcms_tdf(data, frame_start, frame_stop, ...), from frame on
RECURSIVE parse_lcms_tdf_from(_, _, _, _, _)
parse_lcms_tdf_from(frame, frame_start, frame_stop, ms2_only, acc) ==
    IF frame >= frame_stop \/ acc.fault # "" THEN acc
    ELSE parse_lcms_tdf_from(frame + 1, frame_start, frame_stop, ms2_only,
                             ParseTdfFrame(frame, frame_start, frame_stop, ms2_only, acc))

ParseFromFirstFrame(frame_start, frame_stop, ms2_only) ==
    parse_lcms_tdf_from(1, frame_start, frame_stop, ms2_only, EmptyParse)

\* parse_lcms_tdf: both lists start empty at every call
parse_lcms_tdf(frame_start, frame_stop, ms2_only) ==
    parse_lcms_tdf_from(frame_start, frame_start, frame_stop, ms2_only, EmptyParse)


-----------------------------------------------------------------------------
(* MS2 metadata of a record.  A key of the scan_dict is <<v>> when it is    *)
(* set to v and <<>> when it is left as init_scan_dict made it.             *)

\* tims_scannum_to_oneoverk0: the provider's mobility of a sub-scan,
\* strictly decreasing in the scan number
tims_scannum_to_oneoverk0(scan_num) == 100 - scan_num

\* tims_oneoverk0_to_ccs_for_mz(api, mobility, charge, mz), as the record
\* of its arguments
tims_oneoverk0_to_ccs_for_mz(mobility, charge) ==
    [mobility |-> mobility, charge |-> charge]

CcsAlways(precursor_dict) ==
    [selected_ion_mobility |-> <<tims_scannum_to_oneoverk0(precursor_dict.ScanNumber)>>,
     charge_state |-> <<precursor_dict.Charge>>,
     selected_ion_ccs |->
        <<tims_oneoverk0_to_ccs_for_mz(
              tims_scannum_to_oneoverk0(precursor_dict.ScanNumber),
              precursor_dict.Charge)>>]

\* populate_scan_dict_w_ddapasef_ms2: the keys about the selected ion
populate_scan_dict_w_ddapasef_ms2(precursor_dict) ==
    LET mobility == tims_scannum_to_oneoverk0(precursor_dict.ScanNumber)
    IN  [selected_ion_mobility |-> <<mobility>>,
         charge_state |-> <<precursor_dict.Charge>>,
         selected_ion_ccs |->
            IF ~isnan(precursor_dict.Charge)
            THEN <<tims_oneoverk0_to_ccs_for_mz(mobility, precursor_dict.Charge)>>
            ELSE <<>>]

\* populate_scan_dict_w_prmpasef_ms2: the keys about the selected ion
populate_scan_dict_w_prmpasef_ms2(prmtargets_dict) ==
    [selected_ion_mobility |-> <<prmtargets_dict.OneOverK0>>,
     charge_state |-> <<prmtargets_dict.Charge>>,
     selected_ion_ccs |->
        IF ~isnan(prmtargets_dict.Charge)
        THEN <<tims_oneoverk0_to_ccs_for_mz(prmtargets_dict.OneOverK0,
                                            prmtargets_dict.Charge)>>
        ELSE <<>>]

\* the selected-ion keys of the scan_dict a record stands for
ScanDictOf(rec) ==
    CASE rec.kind = "ddaPASEF" ->
            populate_scan_dict_w_ddapasef_ms2(data.precursors[rec.sub])
      [] rec.kind = "prmPASEF" ->
            populate_scan_dict_w_prmpasef_ms2(data.prm_targets[rec.src])
      [] OTHER -> [selected_ion_mobility |-> <<>>, charge_state |-> <<>>,
                   selected_ion_ccs |-> <<>>]

-----------------------------------------------------------------------------
(* write.py: the serializer *)

\* get_spectra_count, SchemaType 'TDF'
get_spectra_count ==
    LET ms1_count == Cardinality({i \in DOMAIN data.frames : data.frames[i].MsMsType = 0})
        ms2_count == Cardinality({i \in DOMAIN data.precursors : data.precursors[i].mono})
    IN  ms1_count + ms2_count

SkipScanCount(sc) == sc + 2

\* scan_count += 1
NextScanCount(sc) == sc + 1

WrittenSelfRef(rec, scan_number, parent_number) ==
    [scan_number |-> scan_number, rec |-> rec,
     reference |-> IF parent_number = 0 THEN 0 ELSE scan_number]

\* what write_lcms_ms1_spectrum / write_lcms_ms2_spectrum hand to the sink;
\* reference is the scan number in spectrum_reference, 0 when there is none
Written(rec, scan_number, parent_number) ==
    [scan_number |-> scan_number, rec |-> rec, reference |-> parent_number]

ProductsOfFrame(parent, product_scans) ==
    SelectSeq(product_scans, LAMBDA i : i.frame = parent.frame)

\* products = [i for i in product_scans if i['parent_frame'] == parent['frame']]
ProductsOf(parent, product_scans) ==
    SelectSeq(product_scans, LAMBDA i : i.parent_frame = parent.frame)

\* for product in products: ... write_lcms_ms2_spectrum(writer, parent, ...)
RECURSIVE WriteProducts(_, _, _, _)
WriteProducts(products, parent_number, sc, out) ==
    IF products = <<>> THEN [scan_count |-> sc, out |-> out]
    ELSE LET n == NextScanCount(sc)
         IN  WriteProducts(Tail(products), parent_number, n,
                           Append(out, Written(Head(products), n, parent_number)))

\* for parent in parent_scans: ...
RECURSIVE WriteParents(_, _, _, _)
WriteParents(parent_scans, product_scans, sc, out) ==
    IF parent_scans = <<>> THEN [scan_count |-> sc, out |-> out]
    ELSE LET parent == Head(parent_scans)
             n == NextScanCount(sc)
             w == WriteProducts(ProductsOf(parent, product_scans), n, n,
                                Append(out, Written(parent, n, 0)))
         IN  WriteParents(Tail(parent_scans), product_scans, w.scan_count, w.out)

\* the branches of write_lcms_chunk_to_mzml after parsing
WriteScans(parent_scans, product_scans, ms2_only, sc) ==
    IF ~ms2_only THEN WriteParents(parent_scans, product_scans, sc, <<>>)
    ELSE IF ms2_only \/ parent_scans = <<>>
         THEN WriteProducts(product_scans, 0, sc, <<>>)
         ELSE [scan_count |-> sc, out |-> <<>>]

\* write_lcms_chunk_to_mzml(data, writer, frame_start, frame_stop, scan_count, ...)
WritePartialOnFault(frame_start, frame_stop, sc) ==
    LET p == parse_lcms_tdf(frame_start, frame_stop, cfg.ms2_only)
        w == WriteScans(p.parents, p.products, cfg.ms2_only, sc)
    IN  [fault |-> p.fault, scan_count |-> IF p.fault # "" THEN sc ELSE w.scan_count,
         out |-> w.out, decoded |-> p.decoded]

\* write_lcms_chunk_to_mzml(data, writer, frame_start, frame_stop, scan_count, ...):
\* an exception of the parser leaves before any write; an exception of the
\* k-th writer.write_spectrum leaves with the spectra before it written; in
\* both cases the caller's scan_count is not assigned
write_lcms_chunk_to_mzml(frame_start, frame_stop, sc) ==
    LET p == parse_lcms_tdf(frame_start, frame_stop, cfg.ms2_only)
    IN  IF p.fault # ""
        THEN [fault |-> p.fault, scan_count |-> sc, out |-> <<>>, decoded |-> p.decoded]
        ELSE LET w == WriteScans(p.parents, p.products, cfg.ms2_only, sc)
             IN  IF \E i \in DOMAIN w.out : w.out[i].scan_number = SinkFaultScan
                 THEN [fault |-> "sink", scan_count |-> sc,
                       out |-> SelectSeq(w.out,
                                         LAMBDA x : x.scan_number < SinkFaultScan),
                       decoded |-> p.decoded]
                 ELSE [fault |-> "", scan_count |-> w.scan_count, out |-> w.out,
                       decoded |-> p.decoded]

\* zip(ms1_frames[lo : hi], ms1_frames[lo + 1 : hi + 1]) with 0-based lo, hi
ZipWindows(lo, hi) ==
    [k \in 1..(IF hi > lo THEN hi - lo ELSE 0) |->
        <<ms1_frames[lo + k], ms1_frames[lo + k + 1]>>]

\* while chunk + chunk_size + 1 <= len(data.ms1_frames)
WhileTest == chunk + cfg.chunk_size + 1 <= Len(ms1_frames)

\* the window that closes the run: (j, data.frames.shape[0] + 1)
LastWindow(jj) == <<jj, Len(data.frames) + 1>>

\* update_spectra_count: copy the temporary file line by line into the
\* output, replacing the spectrumList line that declares num_of_spectra
UpdatedCount(declared, num, sc) == IF declared = num THEN sc ELSE declared

-----------------------------------------------------------------------------
(* One LC-MS run: write_lcms_mzml *)

Init ==
    /\ \E n \in 1..MaxFrames, sm \in ScanModes :
         \E fs \in [1..n -> FrameSet(sm)] :
           \E ps \in PrecursorTables(fs), dw \in 1..MaxDiaWindows :
             /\ (sm # 9 => dw = 1)
             /\ \E pt \in PrmTargetTables(fs) :
                  data = [frames |-> fs, precursors |-> ps, dia_windows |-> dw,
                          prm_targets |-> pt]
    /\ cfg \in Configs
    /\ pc = "Init"
    /\ chunk = 0
    /\ chunk_list = <<>>
    /\ j = 0
    /\ scan_count = 0
    /\ num_of_spectra = 0 - 1
    /\ sink = <<>>
    /\ windows = <<>>
    /\ tmp_file = NoFile
    /\ out_file = NoFile
    /\ fault = ""
    /\ fn = <<>>

\* MzMLWriter(..._tmp.mzML); controlled_vocabularies(); write_mzml_metadata()
WriteMetadata ==
    /\ pc = "Init"
    /\ tmp_file' = [NoFile EXCEPT !.exists = TRUE]
    /\ pc' = "MetadataWritten"
    /\ UNCHANGED <<data, cfg, chunk, chunk_list, j, scan_count, num_of_spectra,
                   sink, windows, out_file, fault, fn>>

StreamUndeclared ==
    /\ pc = "MetadataWritten"
    /\ scan_count' = 0
    /\ num_of_spectra' = get_spectra_count
    /\ chunk' = 0
    /\ pc' = "Streaming"
    /\ UNCHANGED <<data, cfg, chunk_list, j, sink, windows, tmp_file, out_file,
                   fault, fn>>

\* scan_count = 0; num_of_spectra = get_spectra_count(data);
\* writer.spectrum_list(count=num_of_spectra); chunk = 0
DeclareCount ==
    /\ pc = "MetadataWritten"
    /\ scan_count' = 0
    /\ num_of_spectra' = get_spectra_count
    /\ tmp_file' = [tmp_file EXCEPT !.count = get_spectra_count]
    /\ chunk' = 0
    /\ pc' = "Streaming"
    /\ UNCHANGED <<data, cfg, chunk_list, j, sink, windows, out_file, fault, fn>>

\* the while body up to the inner for loop: build chunk_list
BuildChunk ==
    /\ pc = "Streaming"
    /\ WhileTest
    /\ chunk_list' = ZipWindows(chunk, chunk + cfg.chunk_size)
    /\ j' = ms1_frames[chunk + cfg.chunk_size + 1]
    /\ pc' = "Chunk"
    /\ UNCHANGED <<data, cfg, chunk, scan_count, num_of_spectra, sink, windows,
                   tmp_file, out_file, fault, fn>>

\* the else branch of the while: the remaining windows and the closing one;
\* j is unbound when no zip iteration ever ran (NameError)
BuildLastChunk ==
    /\ pc = "Streaming"
    /\ ~WhileTest
    /\ LET rest == ZipWindows(chunk, Len(ms1_frames) - 1)
           jj == IF rest = <<>> THEN j ELSE ms1_frames[Len(ms1_frames)]
       IN  IF jj = 0
           THEN /\ fault' = "NameError"
                /\ pc' = "Aborted"
                /\ UNCHANGED <<chunk_list, j>>
           ELSE /\ chunk_list' = Append(rest, LastWindow(jj))
                /\ j' = jj
                /\ pc' = "LastChunk"
                /\ UNCHANGED fault
    /\ UNCHANGED <<data, cfg, chunk, scan_count, num_of_spectra, sink, windows,
                   tmp_file, out_file, fn>>

\* one iteration of  for frame_start, frame_stop in chunk_list
WriteWindow ==
    /\ pc \in {"Chunk", "LastChunk"}
    /\ chunk_list # <<>>
    /\ LET win == Head(chunk_list)
           r == write_lcms_chunk_to_mzml(win[1], win[2], scan_count)
       IN  /\ windows' = Append(windows, win)
           /\ chunk_list' = Tail(chunk_list)
           /\ sink' = sink \o r.out
           /\ tmp_file' = [tmp_file EXCEPT !.spectra = @ + Len(r.out)]
           /\ fn' = LogDecodes(fn, r.decoded)
           /\ IF r.fault # ""
              THEN /\ fault' = r.fault
                   /\ pc' = "Aborted"
                   /\ UNCHANGED scan_count
              ELSE /\ scan_count' = r.scan_count
                   /\ UNCHANGED <<fault, pc>>
    /\ UNCHANGED <<data, cfg, chunk, j, num_of_spectra, out_file>>

\* chunk += chunk_size
EndChunk ==
    /\ pc = "Chunk"
    /\ chunk_list = <<>>
    /\ chunk' = chunk + cfg.chunk_size
    /\ pc' = "Streaming"
    /\ UNCHANGED <<data, cfg, chunk_list, j, scan_count, num_of_spectra, sink,
                   windows, tmp_file, out_file, fault, fn>>

\* leaving the with blocks: the writer closes the temporary file
CloseWriter ==
    /\ pc = "LastChunk"
    /\ chunk_list = <<>>
    /\ pc' = "Closed"
    /\ UNCHANGED <<data, cfg, chunk, chunk_list, j, scan_count, num_of_spectra,
                   sink, windows, tmp_file, out_file, fault, fn>>

\* if num_of_spectra != scan_count: update_spectra_count(...)
Reconcile ==
    /\ pc = "Closed"
    /\ IF num_of_spectra # scan_count
       THEN /\ out_file' = [tmp_file EXCEPT
                               !.count = UpdatedCount(tmp_file.count, num_of_spectra,
                                                      scan_count)]
            /\ tmp_file' = NoFile
       ELSE UNCHANGED <<tmp_file, out_file>>
    /\ pc' = "Finalized"
    /\ UNCHANGED <<data, cfg, chunk, chunk_list, j, scan_count, num_of_spectra,
                   sink, windows, fault, fn>>

Next ==
    \/ WriteMetadata
    \/ DeclareCount
    \/ BuildChunk
    \/ BuildLastChunk
    \/ WriteWindow
    \/ EndChunk
    \/ CloseWriter
    \/ Reconcile

Spec == Init /\ [][Next]_vars


-----------------------------------------------------------------------------
(* Properties of the LC-MS run *)

Ended == pc \in {"Finalized", "Aborted"}

\* window w of the run was parsed and written without a fault
WindowDone(w) ==
    /\ w \in 1..Len(windows)
    /\ (pc = "Aborted" /\ fault \in {"extract", "provider", "sink"}) => w < Len(windows)

ParseOf(w) == parse_lcms_tdf(windows[w][1], windows[w][2], cfg.ms2_only)

\* the position in the sink of a record, 0 when it was never written
PosInSink(rec) ==
    IF \E k \in 1..Len(sink) : sink[k].rec = rec
    THEN CHOOSE k \in 1..Len(sink) : sink[k].rec = rec
    ELSE 0

DroppedFrames == {i \in DOMAIN data.frames : data.frames[i].empty}

\* C1: the k-th spectrum written to the sink of an LC-MS run carries scan
\* number k: numbering starts at 1 and has no gap across windows and chunks,
\* however many frames or records were dropped.
C1_ScanNumbersContiguous ==
    /\ \A k \in 1..Len(sink) : sink[k].scan_number = k
    /\ scan_count = Len(sink)

\* a finished run of at least two windows that dropped a frame and wrote
\* at least two spectra
C1_Witness ==
    /\ pc = "Finalized"
    /\ Len(windows) >= 2
    /\ Len(sink) >= 2
    /\ \E i \in DroppedFrames : IsMs1Type(data.frames[i].MsMsType)
    /\ ~cfg.ms2_only

\* C2: in every acquisition mode the count declared before streaming is at
\* least the number of spectra emitted; when the two are equal no correction
\* is made; when they differ the finalized output declares the emitted number.
C2_Reconciliation ==
    pc = "Finalized" =>
        /\ num_of_spectra >= Len(sink)
        /\ num_of_spectra = Len(sink) => ~out_file.exists
        /\ num_of_spectra # Len(sink) => out_file.exists /\ out_file.count = Len(sink)

\* C3: in a window every MS1 parent record is written first and is followed
\* at once by all product records whose parent_frame is its frame, numbered
\* consecutively after it and referring to it; records reach the sink in
\* ascending order of the frames they were built from.
C3_ParentThenProducts ==
    /\ \A w \in 1..Len(windows) : WindowDone(w) =>
         LET p == ParseOf(w)
         IN  \A a \in 1..Len(p.parents) : p.parents[a].ms_level = 1 =>
               LET parent == p.parents[a]
                   k == PosInSink(parent)
                   products == SelectSeq(p.products,
                                         LAMBDA i : i.parent_frame = parent.frame)
               IN  /\ k # 0
                   /\ k + Len(products) <= Len(sink)
                   /\ \A i \in 1..Len(products) :
                        /\ sink[k + i].rec = products[i]
                        /\ sink[k + i].scan_number = sink[k].scan_number + i
                        /\ sink[k + i].reference = sink[k].scan_number
    /\ \A a, b \in 1..Len(sink) : a < b => sink[a].rec.src <= sink[b].rec.src

\* an MS1 record followed by its two products, then a later window's record
C3_Witness ==
    \E k \in 1..Len(sink) :
        /\ k + 3 <= Len(sink)
        /\ sink[k].rec.ms_level = 1
        /\ sink[k + 1].rec.parent_frame = sink[k].rec.frame
        /\ sink[k + 2].rec.parent_frame = sink[k].rec.frame
        /\ sink[k + 3].rec.ms_level = 1

\* C4: a product record built for a window whose parent_frame matches no
\* parent record of that window is still written, standalone, with no
\* spectrum_reference, whether or not the MS2-only flag is set.
C4_OrphanProductsEmitted ==
    \A w \in 1..Len(windows) : WindowDone(w) =>
        LET p == ParseOf(w)
        IN  \A i \in 1..Len(p.products) :
              (\A a \in 1..Len(p.parents) :
                    p.parents[a].frame # p.products[i].parent_frame)
              => /\ PosInSink(p.products[i]) # 0
                 /\ sink[PosInSink(p.products[i])].reference = 0

\* C5: a run either completes with a finalized output whose declared count
\* is the number of spectra written, or ends on a fault with the partial
\* output under the temporary name only.
C5_TwoOutcomes ==
    /\ pc = "Finalized" =>
         /\ out_file.exists
         /\ out_file.count = Len(sink)
         /\ out_file.spectra = Len(sink)
    /\ pc = "Aborted" => ~out_file.exists /\ tmp_file.exists

Ms1OnlyAcquisition ==
    /\ \A i \in DOMAIN data.frames :
         data.frames[i].ScanMode = 0 /\ data.frames[i].MsMsType = 0
    /\ ~cfg.ms2_only

\* C6: an MS1-only acquisition of n frames (n >= 2) of which k >= 1 decode
\* to empty arrays ends with exactly n-k records written, numbered 1..n-k,
\* and the declared count corrected from n to n-k, on every extraction route.
C6_EmptyFramesDropped ==
    LET n == Len(data.frames)
        k == Cardinality(DroppedFrames)
    IN  (Ms1OnlyAcquisition /\ n >= 2 /\ k >= 1 /\ Ended) =>
            /\ pc = "Finalized"
            /\ Len(sink) = n - k
            /\ \A i \in 1..Len(sink) : sink[i].scan_number = i
            /\ num_of_spectra = n
            /\ out_file.exists /\ out_file.count = n - k

\* C7: the windows [start, stop) a run processes are contiguous, ascending
\* and non-overlapping, and their union holds every frame id, the frames
\* before the first MS1 frame included.
C7_WindowsCover ==
    /\ \A w \in 1..Len(windows) : windows[w][1] < windows[w][2]
    /\ \A w \in 1..(Len(windows) - 1) : windows[w][2] = windows[w + 1][1]
    /\ pc \in {"Closed", "Finalized"} =>
         \A f \in DOMAIN data.frames :
            \E w \in 1..Len(windows) : windows[w][1] <= f /\ f < windows[w][2]


\* the records parse_lcms_tdf built for the windows written so far
BuiltRecords(w) == Range(ParseOf(w).parents) \cup Range(ParseOf(w).products)

AllBuilt == UNION {BuiltRecords(w) : w \in {v \in 1..Len(windows) : WindowDone(v)}}

\* a record was built from (kind, src, sub)
BuiltFrom(kind, src, sub) ==
    \E rec \in AllBuilt : rec.kind = kind /\ rec.src = src /\ rec.sub = sub

\* a record built from (kind, src, sub) reached the sink
WrittenFrom(kind, src, sub) ==
    \E k \in 1..Len(sink) :
        sink[k].rec.kind = kind /\ sink[k].rec.src = src /\ sink[k].rec.sub = sub

NanCharge(rec) ==
    /\ rec.kind \in {"ddaPASEF", "prmPASEF"}
    /\ isnan(ScanDictOf(rec).charge_state[1])

\* C12: a ddaPASEF or prmPASEF record whose charge is NaN has no
\* selected_ion_ccs while its selected_ion_mobility is set, and the NaN
\* charge suppresses nothing else: of two precursor rows of one parent that
\* differ only in the charge, both records are built or neither, and both
\* are written or neither; a prmPASEF frame with data has its record built,
\* and written when MS1-level output is on, whatever its target's charge.
C12_NanChargeNoCcs ==
    /\ \A rec \in AllBuilt \cup {sink[k].rec : k \in 1..Len(sink)} :
         NanCharge(rec) =>
            /\ ScanDictOf(rec).selected_ion_ccs = <<>>
            /\ ScanDictOf(rec).selected_ion_mobility # <<>>
    /\ \A a, b \in DOMAIN data.precursors :
         LET ra == data.precursors[a]
             rb == data.precursors[b]
         IN  (ra.Parent = rb.Parent /\ ra.empty = rb.empty
              /\ isnan(ra.Charge) /\ ~isnan(rb.Charge)) =>
                /\ BuiltFrom("ddaPASEF", ra.Parent, a) <=> BuiltFrom("ddaPASEF", rb.Parent, b)
                /\ WrittenFrom("ddaPASEF", ra.Parent, a)
                      <=> WrittenFrom("ddaPASEF", rb.Parent, b)
    /\ \A w \in 1..Len(windows) : WindowDone(w) =>
         \A f \in windows[w][1]..(windows[w][2] - 1) :
            (/\ data.frames[f].ScanMode = 10 /\ data.frames[f].MsMsType = 10
             /\ ~data.frames[f].empty
             /\ isnan(data.prm_targets[f].Charge)) =>
                /\ BuiltFrom("prmPASEF", f, 0)
                /\ ~cfg.ms2_only => WrittenFrom("prmPASEF", f, 0)

\* two products of one parent are written, one with a NaN charge and one
\* with a charge
C12_Witness ==
    \E a, b \in 1..Len(sink) :
        /\ sink[a].rec.kind = "ddaPASEF" /\ sink[b].rec.kind = "ddaPASEF"
        /\ sink[a].rec.parent_frame = sink[b].rec.parent_frame
        /\ NanCharge(sink[a].rec)
        /\ ~NanCharge(sink[b].rec)
        /\ ScanDictOf(sink[b].rec).selected_ion_ccs # <<>>

\* the frames of the windows parsed without a fault
DoneFrames ==
    UNION {windows[w][1]..(windows[w][2] - 1) :
              w \in {v \in 1..Len(windows) : WindowDone(v)}}

\* C13: when an extractor finds no sub-scan with data and returns its empty
\* signal, the caller drops the record and raises no fault: with binning
\* off, a run never ends on an extraction fault, and a frame without data
\* leaves no record in the sink.
C13_EmptySignalDropped ==
    /\ cfg.profile_bins = 0 => fault # "extract"
    /\ \A f \in DoneFrames : data.frames[f].empty =>
         \A k \in 1..Len(sink) :
            sink[k].rec.src = f => sink[k].rec.kind = "ddaPASEF"


C16_Ms2OnlyEmitsAll ==
    cfg.ms2_only =>
        /\ \A k \in 1..Len(sink) :
             sink[k].rec.ms_level = 2 /\ sink[k].reference = 0
        /\ \A rec \in AllBuilt : rec.ms_level = 2 => PosInSink(rec) # 0
        /\ \A i \in DOMAIN data.precursors :
             (data.precursors[i].Parent \in DoneFrames /\ ~data.precursors[i].empty
              /\ \E f \in DoneFrames : data.frames[f].MsMsType = 8)
             => WrittenFrom("ddaPASEF", data.precursors[i].Parent, i)


\* the serializer's phase at a position of write_lcms_mzml; an aborted run
\* is in none of them
PhaseRank(p) ==
    CASE p = "Init" -> 1
      [] p = "MetadataWritten" -> 2
      [] p \in {"Streaming", "Chunk", "LastChunk"} -> 3
      [] p \in {"Closed", "Finalized"} -> 4
      [] OTHER -> 0

\* C20: the run goes through Init, MetadataWritten, Streaming, Finalized in
\* this order, never back and never skipping one; the count is declared to
\* the sink only once the metadata is written and before any spectrum; a
\* spectrum is written only while streaming, to a sink whose count is
\* declared, never once the writer is closed; the reconciliation step is
\* taken only from the closed writer, with no window left to write.
C20_PhaseOrder ==
    [][/\ pc' # pc /\ pc' # "Aborted" =>
            PhaseRank(pc') \in {PhaseRank(pc), PhaseRank(pc) + 1}
       /\ pc = "Aborted" => pc' = "Aborted"
       /\ tmp_file.count = 0 - 1 /\ tmp_file'.count # 0 - 1 =>
            /\ tmp_file.exists
            /\ PhaseRank(pc) = 2
            /\ sink = <<>>
       /\ sink' # sink =>
            /\ PhaseRank(pc) = 3
            /\ tmp_file.exists
            /\ tmp_file.count = num_of_spectra /\ num_of_spectra # 0 - 1
       /\ pc \in {"Closed", "Finalized"} => sink' = sink
       /\ pc' = "Finalized" /\ pc # "Finalized" =>
            /\ pc = "Closed"
            /\ chunk_list = <<>>
            /\ sink' = sink
       /\ out_file' # out_file => pc = "Closed" /\ pc' = "Finalized"]_vars

\* a run that went through all four phases, wrote spectra of at least two
\* windows and rewrote the declared count at the end
C20_Witness ==
    /\ pc = "Finalized"
    /\ Len(windows) >= 2
    /\ sink # <<>>
    /\ out_file.exists
    /\ out_file.count = Len(sink)


\* C24: after a run that completes without fault the output exists under
\* its final name and the temporary file is gone, whether or not the
\* declared count had to be corrected.
C24_TmpReplacedByOutput ==
    pc = "Finalized" => out_file.exists /\ ~tmp_file.exists

\* the window of the run that holds frame f, 0 when there is none
WindowOfFrame(f) ==
    IF \E w \in 1..Len(windows) : windows[w][1] <= f /\ f < windows[w][2]
    THEN CHOOSE w \in 1..Len(windows) : windows[w][1] <= f /\ f < windows[w][2]
    ELSE 0

\* C25: a written product that carries a spectrum_reference refers to the
\* scan number of a record written before it, from the same window, whose
\* frame is the product's parent_frame and whose scan number is smaller
\* than the product's own.
C25_BackReference ==
    \A k \in 1..Len(sink) : sink[k].reference # 0 =>
        \E m \in 1..(k - 1) :
            /\ sink[m].scan_number = sink[k].reference
            /\ sink[m].rec.frame = sink[k].rec.parent_frame
            /\ sink[m].rec.frame # 0
            /\ sink[m].scan_number < sink[k].scan_number
            /\ WindowOfFrame(sink[m].rec.src) # 0
            /\ WindowOfFrame(sink[m].rec.src) = WindowOfFrame(sink[k].rec.src)

\* a product that refers to a parent written in a later window than the
\* first spectrum of the run
C25_Witness ==
    \E k \in 1..Len(sink) :
        /\ sink[k].reference >= 2
        /\ WindowOfFrame(sink[k].rec.src) >= 2


\* the windows a run is to process: one per pair of consecutive MS1 frames,
\* then the window from the last MS1 frame to the end of the Frames table
ExpectedWindows ==
    [k \in 1..Len(ms1_frames) |->
        IF k < Len(ms1_frames) THEN <<ms1_frames[k], ms1_frames[k + 1]>>
        ELSE <<ms1_frames[k], Len(data.frames) + 1>>]

IsPrefix(a, b) == Len(a) <= Len(b) /\ \A k \in 1..Len(a) : a[k] = b[k]

\* C26: whatever chunk_size is, a run over an acquisition with an MS1 frame
\* processes the windows (ms1[i], ms1[i+1]) in order and then the window
\* (last MS1 frame, frame count + 1), each once: the windows processed so far
\* are a prefix of that list, and a run not stopped by an extraction fault
\* ends having processed all of it.
C26_WindowsSameForEveryChunkSize ==
    ms1_frames # <<>> =>
        /\ IsPrefix(windows, ExpectedWindows)
        /\ (Ended /\ fault # "extract") => windows = ExpectedWindows

\* C27: with at least one MS1 frame the chunk loop raises no fault of its
\* own for any chunk_size, and once it is over the last window processed is
\* (last MS1 frame, frame count + 1).
C27_ChunkLoopEnds ==
    ms1_frames # <<>> =>
        /\ fault # "NameError"
        /\ pc \in {"Closed", "Finalized"} =>
             /\ windows # <<>>
             /\ windows[Len(windows)]
                   = <<ms1_frames[Len(ms1_frames)], Len(data.frames) + 1>>

C26_ExceptUnboundJ ==
    (ms1_frames # <<>> /\ fault # "NameError") =>
        /\ IsPrefix(windows, ExpectedWindows)
        /\ (Ended /\ fault # "extract") => windows = ExpectedWindows


\* C29: no record reaches the sink twice: the spectra written so far come
\* from pairwise different sources (frame, precursor row or window), so a
\* product is never written under two parents and a record of one window is
\* never written again in a later one; and each comes from a frame of the
\* window it was written in.
C29_WrittenOnce ==
    /\ \A a, b \in 1..Len(sink) :
         a < b => << sink[a].rec.kind, sink[a].rec.src, sink[a].rec.sub >>
                    # << sink[b].rec.kind, sink[b].rec.src, sink[b].rec.sub >>
    /\ \A a, b \in 1..Len(sink) :
         a < b => WindowOfFrame(sink[a].rec.src) <= WindowOfFrame(sink[b].rec.src)
    /\ \A a \in 1..Len(sink) : WindowOfFrame(sink[a].rec.src) # 0

\* a finished run that wrote a parent with two products in one window and
\* a record of a later window
C29_Witness ==
    /\ pc = "Finalized"
    /\ \E a, b, c \in 1..Len(sink) :
         /\ sink[a].reference # 0 /\ sink[b].reference = sink[a].reference
         /\ a < b /\ b < c
         /\ WindowOfFrame(sink[b].rec.src) < WindowOfFrame(sink[c].rec.src)


-----------------------------------------------------------------------------
(* The LC-MS run under a fault plan: the same steps, started with a frame  *)
(* whose decode the provider fails and a spectrum whose write the sink     *)
(* rejects, and with the log of decode calls kept.                         *)

MaxSinkFault == 2

InitFault ==
    /\ \E n \in 1..MaxFrames, sm \in ScanModes :
         \E fs \in [1..n -> FrameSet(sm)] :
           \E ps \in PrecursorTables(fs), dw \in 1..MaxDiaWindows :
             /\ (sm # 9 => dw = 1)
             /\ \A i \in DOMAIN ps : ps[i].mono /\ ~isnan(ps[i].Charge)
             /\ \E pt \in PrmTargetTables(fs) :
                  /\ \A i \in DOMAIN pt : ~isnan(pt[i].Charge)
                  /\ data = [frames |-> fs, precursors |-> ps, dia_windows |-> dw,
                             prm_targets |-> pt]
             /\ \E pf \in 0..n, sf \in 0..MaxSinkFault :
                  fn = [op |-> "run", provider_fault |-> pf, sink_fault |-> sf,
                        decoded |-> <<>>]
    /\ cfg \in {c \in Configs : c.mode = "centroid"}
    /\ pc = "Init"
    /\ chunk = 0
    /\ chunk_list = <<>>
    /\ j = 0
    /\ scan_count = 0
    /\ num_of_spectra = 0 - 1
    /\ sink = <<>>
    /\ windows = <<>>
    /\ tmp_file = NoFile
    /\ out_file = NoFile
    /\ fault = ""

SpecFault == InitFault /\ [][Next]_vars

\* how often frame f is in the log of decode calls
TimesDecoded(log, f) == Cardinality({k \in DOMAIN log : log[k] = f})

\* C21: a fault of the provider or of the sink is not retried.  The step
\* in which the provider fails a decode ends the run with that call the
\* last of the log and the only one for its frame; the step in which the
\* sink rejects the write of spectrum k ends the run with the k-1 spectra
\* before it in the sink; after either, no step of the run changes
\* anything: no decode call, no write.
C21_FaultNotRetried ==
    [][/\ (fault = "" /\ fault' = "provider") =>
            /\ pc' = "Aborted"
            /\ fn'.decoded # <<>>
            /\ fn'.decoded[Len(fn'.decoded)] = ProviderFaultFrame
            /\ TimesDecoded(fn'.decoded, ProviderFaultFrame) = 1
            /\ sink' = sink
       /\ (fault = "" /\ fault' = "sink") =>
            /\ pc' = "Aborted"
            /\ IsPrefix(sink, sink')
            /\ Len(sink') = SinkFaultScan - 1
       /\ fault \in {"provider", "sink"} =>
            /\ pc = "Aborted"
            /\ UNCHANGED vars]_vars

\* the provider failed the decode of a frame that is followed, in its
\* window, by a frame with data, after spectra of an earlier window were
\* written
C21_Witness ==
    /\ pc = "Aborted" /\ fault = "provider"
    /\ sink # <<>>
    /\ ProviderFaultFrame < Len(data.frames)
    /\ ProviderFaultFrame + 1 < windows[Len(windows)][2]
    /\ ~data.frames[ProviderFaultFrame + 1].empty
    /\ ~IsMs1Type(data.frames[ProviderFaultFrame + 1].MsMsType)

\* C28: when the provider fails a decode while a window is parsed, the step
\* leaves the sink, the emitted count and the temporary file's content as
\* they were: the sink holds the records of the windows before the failed
\* one, all of them and no record from a frame of the failed window.
C28_FailedWindowWritesNothing ==
    [][(fault = "" /\ fault' = "provider") =>
            /\ sink' = sink
            /\ scan_count' = scan_count
            /\ scan_count' = Len(sink')
            /\ tmp_file' = tmp_file
            /\ windows' = Append(windows, Head(chunk_list))
            /\ \A k \in 1..Len(sink') :
                 sink'[k].rec.src < Head(chunk_list)[1]]_vars

\* the provider failed on the second frame of a window whose first frame
\* had been parsed into a record, after an earlier window was written
C28_Witness ==
    /\ pc = "Aborted" /\ fault = "provider"
    /\ sink # <<>>
    /\ windows[Len(windows)][1] < ProviderFaultFrame
    /\ ~data.frames[windows[Len(windows)][1]].empty
    /\ ~cfg.ms2_only


-----------------------------------------------------------------------------
(* The pure functions of parse.py are checked one call at a time: Init     *)
(* draws the arguments, the action applies the function.  The run's        *)
(* variables stay idle.                                                    *)

RunIdle ==
    /\ data = [frames |-> <<>>, precursors |-> <<>>, dia_windows |-> 1,
               prm_targets |-> <<>>]
    /\ cfg = [mode |-> "raw", ms2_only |-> FALSE, exclude_mobility |-> FALSE,
              profile_bins |-> 0, chunk_size |-> 1]
    /\ pc = "Idle"
    /\ chunk = 0
    /\ chunk_list = <<>>
    /\ j = 0
    /\ scan_count = 0
    /\ num_of_spectra = 0 - 1
    /\ sink = <<>>
    /\ windows = <<>>
    /\ tmp_file = NoFile
    /\ out_file = NoFile
    /\ fault = ""

\* strictly ascending sequences of length n over 1..top
AscendingSeqs(n, top) ==
    {q \in [1..n -> 1..top] : \A a, b \in 1..n : a < b => q[a] < q[b]}

\* non-decreasing sequences of length n over 1..top
SortedSeqs(n, top) ==
    {q \in [1..n -> 1..top] : \A a, b \in 1..n : a < b => q[a] <= q[b]}

RECURSIVE MaxOf(_)
MaxOf(q) == IF Len(q) = 1 THEN q[1]
            ELSE LET m == MaxOf(Tail(q)) IN IF q[1] >= m THEN q[1] ELSE m

RECURSIVE MinOf(_)
MinOf(q) == IF Len(q) = 1 THEN q[1]
            ELSE LET m == MinOf(Tail(q)) IN IF q[1] <= m THEN q[1] ELSE m

-----------------------------------------------------------------------------
(* parse_lcms_tdf, one call: a window [frame_start, frame_stop) over a     *)
(* Frames table that mixes every (ScanMode, MsMsType) pair, the pair (1, 2) *)
(* and the ddaPASEF fragmentation pair (8, 8), which the chain has no      *)
(* branch for, included.                                                   *)

FramePairs == {<<0, 0>>, <<8, 0>>, <<8, 8>>, <<9, 9>>, <<4, 2>>, <<2, 2>>,
               <<10, 10>>, <<1, 2>>}

MixedFrameSet ==
    {[ScanMode |-> pr[1], MsMsType |-> pr[2], empty |-> e] :
        pr \in FramePairs, e \in BOOLEAN}

InitParse ==
    /\ \E n \in 1..MaxFrames :
         \E fs \in [1..n -> MixedFrameSet] :
            /\ \E ps \in PrecursorTables(fs) :
                 /\ Len(ps) <= 1
                 /\ \A i \in DOMAIN ps : ps[i].mono /\ ~isnan(ps[i].Charge)
                 /\ data = [frames |-> fs, precursors |-> ps, dia_windows |-> 1,
                            prm_targets |-> [i \in 1..n |->
                                                [Charge |-> NaN, OneOverK0 |-> 1]]]
            /\ \E a \in 1..n, b \in 2..(n + 1) :
                 /\ a < b
                 /\ fn = [op |-> "parse", done |-> FALSE, frame_start |-> a,
                          frame_stop |-> b, parsed |-> EmptyParse]
    /\ cfg \in {c \in Configs : c.chunk_size = 1}
    /\ pc = "Idle"
    /\ chunk = 0
    /\ chunk_list = <<>>
    /\ j = 0
    /\ scan_count = 0
    /\ num_of_spectra = 0 - 1
    /\ sink = <<>>
    /\ windows = <<>>
    /\ tmp_file = NoFile
    /\ out_file = NoFile
    /\ fault = ""

ParseLcmsTdf ==
    /\ fn.op = "parse" /\ ~fn.done
    /\ fn' = [fn EXCEPT !.done = TRUE,
                        !.parsed = parse_lcms_tdf(fn.frame_start, fn.frame_stop,
                                                  cfg.ms2_only)]
    /\ UNCHANGED runVars

NextParse == ParseLcmsTdf

SpecParse == InitParse /\ [][NextParse]_vars

\* the variant the lookup table gives a frame's pair, "skip" when the pair
\* is not in it
TableKind(f) ==
    LET fr == data.frames[f]
    IN  CASE fr.MsMsType = 0 -> "MS1"
          [] fr.ScanMode = 9 /\ fr.MsMsType = 9 -> "diaPASEF"
          [] fr.ScanMode = 4 /\ fr.MsMsType = 2 -> "bbCID"
          [] fr.ScanMode = 2 /\ fr.MsMsType = 2 -> "MRM"
          [] fr.ScanMode = 10 /\ fr.MsMsType = 10 -> "prmPASEF"
          [] OTHER -> "skip"

ParsedWindow == fn.frame_start..(fn.frame_stop - 1)

ParsedRecords == Range(fn.parsed.parents) \cup Range(fn.parsed.products)

KindsFrom(f) == {r.kind : r \in {q \in ParsedRecords : q.src = f}}

-----------------------------------------------------------------------------
(* populate_scan_dict_w_spectrum_data *)

\* np.where(intensity_array == np.max(intensity_array)): the indices, ascending
RECURSIVE WhereEqual(_, _, _)
WhereEqual(q, v, i) ==
    IF i > Len(q) THEN <<>>
    ELSE (IF q[i] = v THEN <<i>> ELSE <<>>) \o WhereEqual(q, v, i + 1)

LastAt(array, base_peak_index) == array[base_peak_index[Len(base_peak_index)]]

\* array[base_peak_index][0]
FirstAt(array, base_peak_index) == array[Head(base_peak_index)]

populate_scan_dict_w_spectrum_data(mz_array, intensity_array) ==
    LET base_peak_index == WhereEqual(intensity_array, MaxOf(intensity_array), 1)
    IN  [mz_array |-> mz_array,
         intensity_array |-> intensity_array,
         total_ion_current |-> SumSeq(intensity_array),
         base_peak_mz |-> FirstAt(mz_array, base_peak_index),
         base_peak_intensity |-> FirstAt(intensity_array, base_peak_index),
         high_mz |-> MaxOf(mz_array),
         low_mz |-> MinOf(mz_array)]

InitStats ==
    /\ RunIdle
    /\ \E n \in 1..MaxPoints :
         \E mz \in SortedSeqs(n, MaxMz), it \in [1..n -> 0..MaxIntensity] :
            fn = [op |-> "stats", done |-> FALSE, mz_array |-> mz,
                  intensity_array |-> it, scan_dict |-> <<>>]

PopulateSpectrumData ==
    /\ fn.op = "stats" /\ ~fn.done
    /\ fn' = [fn EXCEPT !.done = TRUE,
                        !.scan_dict = populate_scan_dict_w_spectrum_data(
                                          fn.mz_array, fn.intensity_array)]
    /\ UNCHANGED runVars

NextStats == PopulateSpectrumData

SpecStats == InitStats /\ [][NextStats]_vars

\* C9: a populated record has total_ion_current = sum of intensity_array,
\* base_peak_intensity = its maximum, base_peak_mz = the m/z at the first
\* index that reaches the maximum (also on ties), low_mz / high_mz = the
\* minimum / maximum of mz_array.
C9_DerivedStats ==
    (fn.op = "stats" /\ fn.done) =>
        LET d == fn.scan_dict
            mz == fn.mz_array
            it == fn.intensity_array
            idx == DOMAIN it
        IN  /\ d.mz_array = mz /\ d.intensity_array = it
            /\ d.total_ion_current = SumSeq(it)
            /\ \A i \in idx : it[i] <= d.base_peak_intensity
            /\ \E i \in idx :
                 /\ it[i] = d.base_peak_intensity
                 /\ \A k \in idx : k < i => it[k] < it[i]
                 /\ d.base_peak_mz = mz[i]
            /\ \A i \in idx : d.low_mz <= mz[i] /\ mz[i] <= d.high_mz
            /\ \E i \in idx : d.low_mz = mz[i]
            /\ \E i \in idx : d.high_mz = mz[i]

\* a populated record whose maximum intensity is reached at two indices of
\* different m/z
C9_Witness ==
    /\ fn.op = "stats" /\ fn.done
    /\ \E a, b \in DOMAIN fn.intensity_array :
         /\ a < b
         /\ fn.intensity_array[a] = fn.scan_dict.base_peak_intensity
         /\ fn.intensity_array[b] = fn.scan_dict.base_peak_intensity
         /\ fn.mz_array[a] # fn.mz_array[b]


-----------------------------------------------------------------------------
(* bin_profile_spectrum.  Bin edges are compared exactly: edge k of        *)
(* np.linspace(lower, upper, N) is lower + k * (upper - lower) / (N - 1),  *)
(* so  edge k <= x  is compared after multiplying by N - 1.  A binned m/z  *)
(* is the quotient num / den, kept as the pair.                            *)

RECURSIVE SumAt(_, _)
SumAt(S, q) ==
    IF S = {} THEN 0
    ELSE LET i == CHOOSE x \in S : TRUE IN q[i] + SumAt(S \ {i}, q)

\* bins[k] <= x, k = 0..N-1
EdgeLeq(k, x, lower, upper, profile_bins) ==
    IF profile_bins = 1 THEN lower <= x
    ELSE lower * (profile_bins - 1) + k * (upper - lower) <= x * (profile_bins - 1)

\* the test np.digitize(x, bins) counts edges with (right=False)
EdgeTest(k, x, lower, upper, profile_bins) ==
    EdgeLeq(k, x, lower, upper, profile_bins)

\* np.digitize(mz_array, bins)[i]
digitize(x, lower, upper, profile_bins) ==
    Cardinality({k \in 0..(profile_bins - 1) :
                    EdgeTest(k, x, lower, upper, profile_bins)})

\* np.unique(...): the distinct values, ascending
RECURSIVE SortSet(_)
SortSet(S) ==
    IF S = {} THEN <<>>
    ELSE LET m == CHOOSE x \in S : \A y \in S : x <= y
         IN  <<m>> \o SortSet(S \ {m})

\* the intensity-weighted mean, for comparison
WeightedMz(members, mz_array, intensity_array) ==
    [num |-> SumAt(members, [i \in DOMAIN mz_array |-> mz_array[i] * intensity_array[i]]),
     den |-> SumAt(members, intensity_array)]

\* np.bincount(inverse_indices, weights=mz_array) / bin_counts, one bin
BinnedMz(members, mz_array, intensity_array) ==
    [num |-> SumAt(members, mz_array),
     den |-> IF Cardinality(members) < 1 THEN 1 ELSE Cardinality(members)]

bin_profile_spectrum(mz_array, intensity_array, profile_bins) ==
    LET mz_acq_range_lower == mz_array[1]
        mz_acq_range_upper == mz_array[Len(mz_array)]
        digitized == [i \in DOMAIN mz_array |->
                        digitize(mz_array[i], mz_acq_range_lower,
                                 mz_acq_range_upper, profile_bins)]
        unique_indices == SortSet(Range(digitized))
        members(r) == {i \in DOMAIN mz_array : digitized[i] = unique_indices[r]}
    IN  [unique_indices |-> unique_indices,
         mz_array |-> [r \in DOMAIN unique_indices |->
                          BinnedMz(members(r), mz_array, intensity_array)],
         intensity_array |-> [r \in DOMAIN unique_indices |->
                                 SumAt(members(r), intensity_array)]]

InitBin ==
    /\ RunIdle
    /\ \E n \in 1..MaxPoints, bins \in 1..MaxBins :
         \E mz \in AscendingSeqs(n, MaxMz), it \in [1..n -> 0..MaxIntensity] :
            fn = [op |-> "bin", done |-> FALSE, mz_array |-> mz,
                  intensity_array |-> it, profile_bins |-> bins, binned |-> <<>>,
                  redone |-> FALSE, rebinned |-> <<>>]

BinProfileSpectrum ==
    /\ fn.op = "bin" /\ ~fn.done
    /\ fn' = [fn EXCEPT !.done = TRUE,
                        !.binned = bin_profile_spectrum(fn.mz_array, fn.intensity_array,
                                                        fn.profile_bins)]
    /\ UNCHANGED runVars

\* A binned m/z array holds fractions; the second call is given them over
\* the common denominator BinScale, as their integer numerators (linspace,
\* digitize and bincount commute with a positive common factor).
RECURSIVE Factorial(_)
Factorial(n) == IF n <= 1 THEN 1 ELSE n * Factorial(n - 1)

BinScale == Factorial(MaxPoints)

ScaledMz(binned_mz) ==
    [r \in DOMAIN binned_mz |-> binned_mz[r].num * (BinScale \div binned_mz[r].den)]

\* bin_profile_spectrum applied to the arrays a first call returned
RebinProfileSpectrum ==
    /\ fn.op = "bin" /\ fn.done /\ ~fn.redone
    /\ fn' = [fn EXCEPT !.redone = TRUE,
                        !.rebinned = bin_profile_spectrum(ScaledMz(fn.binned.mz_array),
                                                          fn.binned.intensity_array,
                                                          fn.profile_bins)]
    /\ UNCHANGED runVars

NextBin ==
    \/ BinProfileSpectrum
    \/ RebinProfileSpectrum

SpecBin == InitBin /\ [][NextBin]_vars

\* the input points of bin b (1..N): edge b-1 <= m/z < edge b, the last bin
\* open above; stated on the edges lower + k * (upper - lower) / (N - 1)
BinMembers(b) ==
    LET mz == fn.mz_array
        lo == mz[1]
        hi == mz[Len(mz)]
        N == fn.profile_bins
        scaled(x) == IF N = 1 THEN x - lo ELSE (x - lo) * (N - 1)
        edge(k) == IF N = 1 THEN 0 ELSE k * (hi - lo)
    IN  {i \in DOMAIN mz :
            /\ edge(b - 1) <= scaled(mz[i])
            /\ b < N => scaled(mz[i]) < edge(b)}

NonEmptyBins == {b \in 1..fn.profile_bins : BinMembers(b) # {}}

\* the output position of bin b: its rank among the non-empty bins
RankOf(b) == Cardinality({c \in NonEmptyBins : c <= b})

BinPartition ==
    /\ \A i \in DOMAIN fn.mz_array :
         Cardinality({b \in 1..fn.profile_bins : i \in BinMembers(b)}) = 1
    /\ Len(fn.binned.mz_array) = Cardinality(NonEmptyBins)
    /\ Len(fn.binned.intensity_array) = Cardinality(NonEmptyBins)

BinSums ==
    /\ \A b \in NonEmptyBins :
         fn.binned.intensity_array[RankOf(b)] = SumAt(BinMembers(b), fn.intensity_array)
    /\ SumSeq(fn.binned.intensity_array) = SumSeq(fn.intensity_array)

\* C10 as stated: every point falls in exactly one of the N right-open bins;
\* each non-empty bin yields the intensity-weighted mean of its members' m/z
\* and the sum of their intensities; total intensity is preserved.
C10_WeightedMean ==
    (fn.op = "bin" /\ fn.done) =>
        /\ BinPartition
        /\ BinSums
        /\ \A b \in NonEmptyBins :
             LET M == BinMembers(b)
                 out == fn.binned.mz_array[RankOf(b)]
                 w == SumAt(M, fn.intensity_array)
                 wm == SumAt(M, [i \in DOMAIN fn.mz_array |->
                                    fn.mz_array[i] * fn.intensity_array[i]])
             IN  w > 0 => out.num * w = wm * out.den

\* C10 amended: every point falls in exactly one of the N right-open bins;
\* each non-empty bin yields the arithmetic (unweighted) mean of its members'
\* m/z and the sum of their intensities; total intensity is preserved.
C10_ArithmeticMean ==
    (fn.op = "bin" /\ fn.done) =>
        /\ BinPartition
        /\ BinSums
        /\ \A b \in NonEmptyBins :
             LET M == BinMembers(b)
                 out == fn.binned.mz_array[RankOf(b)]
             IN  out.num * Cardinality(M) = SumAt(M, fn.mz_array) * out.den

\* a binned spectrum with a bin of two members of different intensity, and
\* an input point lying exactly on an inner edge
C10_Witness ==
    /\ fn.op = "bin" /\ fn.done
    /\ fn.profile_bins >= 3
    /\ \E b \in NonEmptyBins : \E a, c \in BinMembers(b) :
         fn.intensity_array[a] # fn.intensity_array[c]
    /\ \E b \in NonEmptyBins : \E a \in BinMembers(b) :
         /\ b > 1 /\ b < fn.profile_bins
         /\ (fn.mz_array[a] - fn.mz_array[1]) * (fn.profile_bins - 1)
              = (b - 1) * (fn.mz_array[Len(fn.mz_array)] - fn.mz_array[1])


\* C11: binning is idempotent: bin_profile_spectrum with bin count N applied
\* to the arrays a call with the same N returned gives the same m/z and
\* intensity arrays again.
C11_BinningIdempotent ==
    (fn.op = "bin" /\ fn.redone) =>
        /\ Len(fn.rebinned.mz_array) = Len(fn.binned.mz_array)
        /\ fn.rebinned.intensity_array = fn.binned.intensity_array
        /\ \A r \in DOMAIN fn.binned.mz_array :
             r \in DOMAIN fn.rebinned.mz_array =>
                fn.rebinned.mz_array[r].num * fn.binned.mz_array[r].den
                    = BinScale * fn.binned.mz_array[r].num * fn.rebinned.mz_array[r].den


\* C22: bin_profile_spectrum with bin count N returns one point per bin: the
\* two output arrays have length N whatever the input, and a bin without a
\* member yields a point of intensity zero.
C22_OnePointPerBin ==
    (fn.op = "bin" /\ fn.done) =>
        /\ Len(fn.binned.mz_array) = fn.profile_bins
        /\ Len(fn.binned.intensity_array) = fn.profile_bins
        /\ \A b \in 1..fn.profile_bins :
             BinMembers(b) = {} => fn.binned.intensity_array[b] = 0

-----------------------------------------------------------------------------
(* Merging the sub-scans of a frame: extract_2d_tdf_spectrum in raw mode   *)
(* and extract_3d_tdf_spectrum, for the sub-scan range [scan_begin,         *)
(* scan_end).  list_of_scans is what tims_read_scans_v2 returns for the    *)
(* range: its k-th entry (from 0) is sub-scan scan_begin + k of the frame, *)
(* an index array and an intensity array.  A merged point is the row       *)
(* <<mz, intensity, mobility>>, mobility 0 in the 2-D case.                *)

\* tims_index_to_mz: the provider's calibration, strictly increasing
tims_index_to_mz(index) == 2 * index + 1

SubScanSet ==
    UNION {{[index |-> ix, intensity |-> it] :
               ix \in AscendingSeqs(n, MaxScanMz),
               it \in [1..n -> 1..MaxScanIntensity]
                      \cup (IF n >= 1 THEN [1..(n - 1) -> 1..MaxScanIntensity] ELSE {})} :
           n \in 0..MaxScanPoints}

\* list_of_scans[scan_num][0].size != 0 and list_of_scans[scan_num][1].size != 0
\* and list_of_scans[scan_num][0].size == list_of_scans[scan_num][1].size
HasData(scan) ==
    /\ Len(scan.index) # 0
    /\ Len(scan.intensity) # 0
    /\ Len(scan.index) = Len(scan.intensity)

\* the rows one sub-scan contributes (scan_num is 0-based)
ScanRows(scan, scan_num, three_d) ==
    [i \in DOMAIN scan.index |->
        <<tims_index_to_mz(scan.index[i]), scan.intensity[i],
          IF three_d THEN tims_scannum_to_oneoverk0(scan_num) ELSE 0>>]

\* np.concatenate over the sub-scans kept, from scan_num on
RECURSIVE ConcatScans(_, _, _)
ConcatScans(list_of_scans, scan_num, three_d) ==
    IF scan_num >= Len(list_of_scans) THEN <<>>
    ELSE (IF HasData(list_of_scans[scan_num + 1])
          THEN ScanRows(list_of_scans[scan_num + 1], scan_num, three_d)
          ELSE <<>>)
         \o ConcatScans(list_of_scans, scan_num + 1, three_d)

RowLess(a, b) ==
    \/ a[1] < b[1]
    \/ a[1] = b[1] /\ a[2] < b[2]
    \/ a[1] = b[1] /\ a[2] = b[2] /\ a[3] < b[3]

\* frames_array[np.argsort(frames_array[:, 0])]: rows ordered by m/z (rows
\* of equal m/z in their order of arrival)
RECURSIVE SortByMz(_)
SortByMz(rows) ==
    IF rows = <<>> THEN <<>>
    ELSE LET least == CHOOSE i \in DOMAIN rows :
                        \A k \in DOMAIN rows :
                            rows[i][1] < rows[k][1] \/ (rows[i][1] = rows[k][1] /\ i <= k)
         IN  <<rows[least]>>
             \o SortByMz([k \in 1..(Len(rows) - 1) |->
                             IF k < least THEN rows[k] ELSE rows[k + 1]])

RECURSIVE SortRows(_)
SortRows(S) ==
    IF S = {} THEN <<>>
    ELSE LET m == CHOOSE x \in S : \A y \in S : x = y \/ RowLess(x, y)
         IN  <<m>> \o SortRows(S \ {m})

KeepRows(rows) == rows

\* np.unique(rows, axis=0): the distinct rows in lexicographic order
np_unique_rows(rows) == SortRows(Range(rows))

\* extract_2d_tdf_spectrum (mode 'raw') and extract_3d_tdf_spectrum
extract_tdf_spectrum(list_of_scans, three_d) ==
    LET frames_array == ConcatScans(list_of_scans, 0, three_d)
    IN  IF frames_array = <<>>
        THEN [none |-> TRUE, mz_array |-> <<>>, intensity_array |-> <<>>,
              mobility_array |-> <<>>]
        ELSE LET u == np_unique_rows(SortByMz(frames_array))
             IN  [none |-> FALSE,
                  mz_array |-> [i \in DOMAIN u |-> u[i][1]],
                  intensity_array |-> [i \in DOMAIN u |-> u[i][2]],
                  mobility_array |-> [i \in DOMAIN u |-> u[i][3]]]

InitMerge ==
    /\ RunIdle
    /\ \E n \in 1..MaxSubScans, d \in BOOLEAN, b \in 0..MaxScanBegin :
         \E scans \in [1..n -> SubScanSet] :
            fn = [op |-> "merge", done |-> FALSE, three_d |-> d,
                  scan_begin |-> b, scan_end |-> b + n,
                  list_of_scans |-> scans, out |-> <<>>]

ExtractTdfSpectrum ==
    /\ fn.op = "merge" /\ ~fn.done
    /\ fn' = [fn EXCEPT !.done = TRUE,
                        !.out = extract_tdf_spectrum(fn.list_of_scans, fn.three_d)]
    /\ UNCHANGED runVars

NextMerge == ExtractTdfSpectrum

SpecMerge == InitMerge /\ [][NextMerge]_vars

Merged == fn.op = "merge" /\ fn.done /\ ~fn.out.none

\* the decoded points of the sub-scans that have data
InputPoints ==
    UNION {{<<tims_index_to_mz(fn.list_of_scans[s].index[i]),
              fn.list_of_scans[s].intensity[i],
              IF fn.three_d THEN tims_scannum_to_oneoverk0(s - 1) ELSE 0>> :
               i \in DOMAIN fn.list_of_scans[s].index} :
           s \in {t \in DOMAIN fn.list_of_scans :
                     /\ Len(fn.list_of_scans[t].index) > 0
                     /\ Len(fn.list_of_scans[t].index) = Len(fn.list_of_scans[t].intensity)}}

OutPoint(i) == <<fn.out.mz_array[i], fn.out.intensity_array[i], fn.out.mobility_array[i]>>

\* C8 as stated: the mz_array of a merged spectrum is strictly ascending, no
\* m/z occurring twice even with different intensity or mobility, and has
\* the length of intensity_array.
C8_StrictlyAscending ==
    Merged =>
        /\ Len(fn.out.mz_array) = Len(fn.out.intensity_array)
        /\ \A a, b \in DOMAIN fn.out.mz_array :
             a < b => fn.out.mz_array[a] < fn.out.mz_array[b]


\* C8 amended: the mz_array of a merged spectrum is ascending (non-decreasing)
\* and has the length of intensity_array and mobility_array; no two points
\* agree in all of m/z, intensity and mobility; points that share an m/z but
\* differ in intensity or mobility are all kept: the merged points are
\* exactly the decoded points of the sub-scans that have data.
C8_AscendingDistinctPoints ==
    Merged =>
        /\ Len(fn.out.mz_array) = Len(fn.out.intensity_array)
        /\ Len(fn.out.mz_array) = Len(fn.out.mobility_array)
        /\ \A a, b \in DOMAIN fn.out.mz_array :
             a < b => /\ fn.out.mz_array[a] <= fn.out.mz_array[b]
                      /\ OutPoint(a) # OutPoint(b)
        /\ {OutPoint(i) : i \in DOMAIN fn.out.mz_array} = InputPoints

\* a merged spectrum that keeps two points of the same m/z and has dropped
\* a repeated point
C8_Witness ==
    /\ Merged
    /\ \E a, b \in DOMAIN fn.out.mz_array :
         a < b /\ fn.out.mz_array[a] = fn.out.mz_array[b]
    /\ Len(fn.out.mz_array) < Len(ConcatScans(fn.list_of_scans, 0, fn.three_d))


\* C23: in 3-D extraction over the sub-scan range [b, e), b = 0 or not,
\* the merged points are exactly the decoded points of the sub-scans of the
\* range that have data, each with the mobility the provider gives for its
\* sub-scan's index in the frame; a sub-scan whose arrays are empty or of
\* different length contributes no point.
C23_MobilityOfSubScan ==
    (Merged /\ fn.three_d) =>
        {OutPoint(i) : i \in DOMAIN fn.out.mz_array}
          = UNION {{<<tims_index_to_mz(fn.list_of_scans[k].index[i]),
                      fn.list_of_scans[k].intensity[i],
                      tims_scannum_to_oneoverk0(fn.scan_begin + k - 1)>> :
                       i \in DOMAIN fn.list_of_scans[k].index} :
                   k \in {t \in DOMAIN fn.list_of_scans : HasData(fn.list_of_scans[t])}}

\* the same for the ranges that start at sub-scan 0
C23_FromScanZero ==
    fn.op = "merge" /\ fn.scan_begin = 0 => C23_MobilityOfSubScan

-----------------------------------------------------------------------------
(* write_maldi_dd_mzml: one run over a MALDI dried-droplet acquisition     *)
(* (TDF, 2-D extraction), in the grouping modes 'combined', 'individual'   *)
(* and 'sample'.  The run's state is the record fn; an output file is      *)
(* named by the tuple its path is built from.                              *)

MaxMaldiFrames == 2

\* MSMS_TYPE_CATEGORY['ms2']
IsMs2Type(t) == t \in {2, 8, 9}

\* spots a frame can come from; the plate map is one row, A1 and A2
Spots == {"A1", "A2", "B1"}

PlateSpots == <<"A1", "A2">>

\* a cell of the plate map as pd.read_csv gives it: a string, an integer,
\* or NaN for an empty cell; text is str(value)
PlateValues ==
    {[type |-> "str", text |-> "ctrl"], [type |-> "str", text |-> "trt"],
     [type |-> "int", text |-> "1"], [type |-> "float", text |-> "nan"]}

\* the texts in Python's string order
TextOrder == <<"1", "ctrl", "nan", "trt">>

str(value) == value.text

MaldiFrameSet == [MsMsType : {0, 2}, empty : BOOLEAN, coord : Spots]

\* the plate_map argument: '' / a path that does not exist / a file that is
\* not .csv / a .csv pd.read_csv cannot parse / a .csv that parses
PlateMapArgs == {"", "missing", "notcsv", "bad", "ok"}

\* parse_maldi_plate_map: spot name -> cell value
PlateMapDicts == [{PlateSpots[i] : i \in DOMAIN PlateSpots} -> PlateValues]

\* parse_maldi_tdf(data, 1, num_frames, mode, ms2_only, True, 0, encoding),
\* from frame on
RECURSIVE parse_maldi_tdf(_, _, _, _, _)
parse_maldi_tdf(frames, frame, mode, ms2_only, acc) ==
    IF frame > Len(frames) \/ acc.fault # "" THEN acc
    ELSE LET f == frames[frame]
             t == SizeTest(extract_2d_outcome(mode, f.empty, 0))
             level == IF IsMs1Type(f.MsMsType) /\ ~ms2_only THEN 1
                      ELSE IF IsMs2Type(f.MsMsType) THEN 2 ELSE 0
             nxt == CASE level = 0 -> acc
                      [] t = "raise" -> [acc EXCEPT !.fault = "AttributeError"]
                      [] t = "keep" ->
                           [acc EXCEPT !.scans =
                               Append(@, [frame |-> frame, ms_level |-> level,
                                          coord |-> f.coord])]
                      [] OTHER -> acc
         IN  parse_maldi_tdf(frames, frame + 1, mode, ms2_only, nxt)

\* the spectra the inner branch hands to write_maldi_dd_ms1_spectrum /
\* write_maldi_dd_ms2_spectrum, numbered from scan_count + 1
RECURSIVE WriteMaldiScans(_, _, _)
WriteMaldiScans(scan_dicts, ms2_only, out) ==
    IF scan_dicts = <<>> THEN out
    ELSE LET s == Head(scan_dicts)
         IN  WriteMaldiScans(Tail(scan_dicts), ms2_only,
                             IF ms2_only /\ s.ms_level = 1 THEN out
                             ELSE Append(out, [scan_number |-> Len(out) + 1,
                                               frame |-> s.frame]))

\* conditions = sorted(list(set(str(value) for value in plate_map_dict.values())))
Conditions(plate_map_dict) ==
    SelectSeq(TextOrder,
              LAMBDA t : \E k \in DOMAIN plate_map_dict : str(plate_map_dict[k]) = t)

GroupUnderText(groups, key, value) ==
    [groups EXCEPT ![str(value)] = Append(@, key)]

\* try: dict_of_scan_lists[value].append(key)  except KeyError: pass
\* a key of the dict is a string; a value that is not a string equals none
GroupAppend(groups, key, value) ==
    IF value.type = "str" /\ value.text \in DOMAIN groups
    THEN [groups EXCEPT ![value.text] = Append(@, key)]
    ELSE groups

\* for key, value in plate_map_dict.items(): ...   (from item i on)
RECURSIVE GroupItems(_, _, _)
GroupItems(plate_map_dict, i, groups) ==
    IF i > Len(PlateSpots) THEN groups
    ELSE GroupItems(plate_map_dict, i + 1,
                    GroupAppend(groups, PlateSpots[i], plate_map_dict[PlateSpots[i]]))

\* dict_of_scan_lists after the two loops
dict_of_scan_lists(plate_map_dict) ==
    GroupItems(plate_map_dict, 1,
               [t \in Range(Conditions(plate_map_dict)) |-> <<>>])


MaldiOutputFiles == {"combined", "individual", "sample"}

\* the file <outfile> of the combined mode
OutFileName == <<"outfile">>

InitMaldi ==
    /\ RunIdle
    /\ \E n \in 1..MaxMaldiFrames :
         \E frames \in [1..n -> MaldiFrameSet], output \in MaldiOutputFiles,
            plate_map \in PlateMapArgs, csv \in PlateMapDicts,
            ms2 \in BOOLEAN, mode \in {"centroid", "raw"} :
            /\ output = "combined" => plate_map = ""
            /\ plate_map # "ok" => \A k \in DOMAIN csv : csv[k].text = "ctrl"
            /\ fn = [op |-> "maldi", pc |-> "Start", frames |-> frames,
                     maldi_output_file |-> output, plate_map |-> plate_map,
                     plate_csv |-> csv, ms2_only |-> ms2, mode |-> mode,
                     list_of_scan_dicts |-> <<>>, plate_map_dict |-> <<>>,
                     groups |-> <<>>, todo |-> <<>>, i |-> 0,
                     num_of_spectra |-> 0, scan_count |-> 0,
                     tmp |-> [exists |-> FALSE, count |-> 0, spectra |-> <<>>],
                     files |-> <<>>, fault |-> ""]

MaldiAbort(fault_name) == [fn EXCEPT !.pc = "Aborted", !.fault = fault_name]

\* 'combined': MzMLWriter(..._tmp.mzML), metadata, num_of_spectra =
\* len(data.frames['Id']), writer.spectrum_list(count=num_of_spectra)
MaldiCombinedOpen ==
    /\ fn.op = "maldi" /\ fn.pc = "Start"
    /\ fn.maldi_output_file = "combined"
    /\ fn' = [fn EXCEPT !.pc = "Combined",
                        !.num_of_spectra = Len(fn.frames),
                        !.scan_count = 0,
                        !.tmp = [exists |-> TRUE, count |-> Len(fn.frames),
                                 spectra |-> <<>>]]
    /\ UNCHANGED runVars

\* 'combined': parse all frames, write every scan_dict, close the writer
MaldiCombinedWrite ==
    /\ fn.op = "maldi" /\ fn.pc = "Combined"
    /\ LET p == parse_maldi_tdf(fn.frames, 1, fn.mode, fn.ms2_only,
                                [fault |-> "", scans |-> <<>>])
           out == WriteMaldiScans(p.scans, fn.ms2_only, <<>>)
       IN  fn' = IF p.fault # "" THEN MaldiAbort(p.fault)
                 ELSE [fn EXCEPT !.pc = "CombinedClosed",
                                 !.list_of_scan_dicts = p.scans,
                                 !.scan_count = Len(out),
                                 !.tmp = [@ EXCEPT !.spectra = out]]
    /\ UNCHANGED runVars

\* 'combined': update_spectra_count(outdir, outfile, num_of_spectra, scan_count)
MaldiUpdateCount ==
    /\ fn.op = "maldi" /\ fn.pc = "CombinedClosed"
    /\ fn' = [fn EXCEPT !.pc = "Done",
                        !.files = (OutFileName :>
                                     [count |-> UpdatedCount(fn.tmp.count,
                                                             fn.num_of_spectra,
                                                             fn.scan_count),
                                      spectra |-> fn.tmp.spectra]) @@ @,
                        !.tmp = [exists |-> FALSE, count |-> 0, spectra |-> <<>>]]
    /\ UNCHANGED runVars

\* 'individual' / 'sample': the elif tests, the plate map check, parsing of
\* the frames and of the plate map
MaldiPlateMapStart ==
    /\ fn.op = "maldi" /\ fn.pc = "Start"
    /\ fn.maldi_output_file \in {"individual", "sample"}
    /\ LET p == parse_maldi_tdf(fn.frames, 1, fn.mode, fn.ms2_only,
                                [fault |-> "", scans |-> <<>>])
       IN  fn' = CASE fn.plate_map = "" -> [fn EXCEPT !.pc = "Done"]
                   [] fn.plate_map \in {"missing", "notcsv"} -> [fn EXCEPT !.pc = "Done"]
                   [] p.fault # "" -> MaldiAbort(p.fault)
                   [] fn.plate_map = "bad" -> MaldiAbort("ParserError")
                   [] OTHER ->
                        [fn EXCEPT !.pc = IF fn.maldi_output_file = "individual"
                                          THEN "Individual" ELSE "Sample",
                                   !.list_of_scan_dicts = p.scans,
                                   !.plate_map_dict = fn.plate_csv,
                                   !.i = 1]
    /\ UNCHANGED runVars

\* 'individual': one iteration of  for scan_dict in list_of_scan_dicts
MaldiWriteIndividual ==
    /\ fn.op = "maldi" /\ fn.pc = "Individual"
    /\ fn.i <= Len(fn.list_of_scan_dicts)
    /\ LET scan_dict == fn.list_of_scan_dicts[fn.i]
           coord == scan_dict.coord
       IN  fn' = IF coord \notin DOMAIN fn.plate_map_dict THEN MaldiAbort("KeyError")
                 ELSE IF fn.plate_map_dict[coord].type # "str" THEN MaldiAbort("TypeError")
                 ELSE [fn EXCEPT
                          !.i = @ + 1,
                          !.scan_count = 1,
                          !.files =
                             (<<fn.plate_map_dict[coord].text, coord>> :>
                                [count |-> 1,
                                 spectra |-> IF fn.ms2_only /\ scan_dict.ms_level = 1
                                             THEN <<>>
                                             ELSE <<[scan_number |-> 1,
                                                     frame |-> scan_dict.frame]>>])
                             @@ @]
    /\ UNCHANGED runVars

MaldiIndividualDone ==
    /\ fn.op = "maldi" /\ fn.pc = "Individual"
    /\ fn.i > Len(fn.list_of_scan_dicts)
    /\ fn' = [fn EXCEPT !.pc = "Done"]
    /\ UNCHANGED runVars

\* 'sample': conditions and dict_of_scan_lists
MaldiGroup ==
    /\ fn.op = "maldi" /\ fn.pc = "Sample"
    /\ fn' = [fn EXCEPT !.pc = "SampleWrite",
                        !.groups = dict_of_scan_lists(fn.plate_map_dict),
                        !.todo = Conditions(fn.plate_map_dict)]
    /\ UNCHANGED runVars

\* 'sample': one iteration of  for key, value in dict_of_scan_lists.items()
MaldiWriteSample ==
    /\ fn.op = "maldi" /\ fn.pc = "SampleWrite"
    /\ fn.todo # <<>>
    /\ LET key == Head(fn.todo)
           value == fn.groups[key]
           condition_scan_dicts ==
               SelectSeq(fn.list_of_scan_dicts, LAMBDA s : s.coord \in Range(value))
           out == WriteMaldiScans(condition_scan_dicts, fn.ms2_only, <<>>)
       IN  fn' = IF key = "nan" THEN [fn EXCEPT !.todo = Tail(@)]
                 ELSE [fn EXCEPT !.todo = Tail(@),
                                 !.scan_count = Len(out),
                                 !.files = (<<key>> :> [count |-> Len(value),
                                                        spectra |-> out]) @@ @]
    /\ UNCHANGED runVars

MaldiSampleDone ==
    /\ fn.op = "maldi" /\ fn.pc = "SampleWrite"
    /\ fn.todo = <<>>
    /\ fn' = [fn EXCEPT !.pc = "Done"]
    /\ UNCHANGED runVars

NextMaldi ==
    \/ MaldiCombinedOpen
    \/ MaldiCombinedWrite
    \/ MaldiUpdateCount
    \/ MaldiPlateMapStart
    \/ MaldiWriteIndividual
    \/ MaldiIndividualDone
    \/ MaldiGroup
    \/ MaldiWriteSample
    \/ MaldiSampleDone

SpecMaldi == InitMaldi /\ [][NextMaldi]_vars

MaldiEnded == fn.op = "maldi" /\ fn.pc \in {"Done", "Aborted"}

\* C17: every finalized output file of write_maldi_dd_mzml, in each of the
\* modes combined, individual and sample, declares as its spectrum count the
\* number of spectra written to it.
C17_MaldiCountsMatch ==
    fn.op = "maldi" =>
        \A name \in DOMAIN fn.files :
            fn.files[name].count = Len(fn.files[name].spectra)

\* C18: when the mode is individual or sample and the plate map is missing,
\* is not a .csv file or fails to parse, the run ends on a fault with no
\* spectrum written anywhere; it never ends as if it had succeeded.
C18_BadPlateMapFatal ==
    (/\ MaldiEnded
     /\ fn.maldi_output_file \in {"individual", "sample"}
     /\ fn.plate_map \in {"", "missing", "notcsv", "bad"})
    => /\ fn.pc = "Aborted" /\ fn.fault # ""
       /\ fn.files = <<>>
       /\ fn.tmp.spectra = <<>>

\* C19: in sample mode a plate-map entry whose value is not one of the keys
\* of dict_of_scan_lists is added to no group and raises nothing; every
\* other entry is in the group of its label, and each group other than
\* 'nan' gets its file, holding the spectra of the group's spots.
C19_UnknownLabelSkipped ==
    (fn.op = "maldi" /\ fn.maldi_output_file = "sample"
     /\ fn.pc \in {"SampleWrite", "Done"} /\ fn.plate_map = "ok") =>
        /\ fn.fault = ""
        /\ \A k \in DOMAIN fn.plate_map_dict :
             LET value == fn.plate_map_dict[k]
             IN  IF value.type = "str"
                 THEN /\ k \in Range(fn.groups[value.text])
                      /\ \A t \in DOMAIN fn.groups :
                           t # value.text => k \notin Range(fn.groups[t])
                 ELSE \A t \in DOMAIN fn.groups : k \notin Range(fn.groups[t])
        /\ fn.pc = "Done" =>
             \A t \in DOMAIN fn.groups : t # "nan" =>
                /\ <<t>> \in DOMAIN fn.files
                /\ {s.frame : s \in Range(fn.files[<<t>>].spectra)}
                     = {s.frame : s \in {q \in Range(fn.list_of_scan_dicts) :
                                            q.coord \in Range(fn.groups[t])}}

\* a finished sample run whose plate map has an entry with a non-string
\* value next to a labelled entry whose spectrum was written
C19_Witness ==
    /\ fn.op = "maldi" /\ fn.maldi_output_file = "sample" /\ fn.pc = "Done"
    /\ fn.plate_map = "ok"
    /\ \E k \in DOMAIN fn.plate_map_dict : fn.plate_map_dict[k].type = "int"
    /\ \E name \in DOMAIN fn.files : fn.files[name].spectra # <<>>


-----------------------------------------------------------------------------
(* The source schema: get_spectra_count and write_lcms_chunk_to_mzml       *)
(* choose their branch by data.meta_data['SchemaType'].  One call of each  *)
(* on an acquisition whose table is read as the schema's own: Frames for   *)
(* TDF and TSF, Spectra for Baf2Sql, where a row of MsMsType 0 has         *)
(* AcquisitionKey 1 (ScanMode 0) and any other row AcquisitionKey 2        *)
(* (ScanMode 2, auto MS/MS).                                               *)

SchemaTypes == {"TDF", "TSF", "Baf2Sql"}

\* get_spectra_count(data): ms1_count and ms2_count are bound only in the
\* branches for 'TDF' and 'Baf2Sql'
get_spectra_count_of(schema) ==
    CASE schema = "TDF" -> [fault |-> "", count |-> get_spectra_count]
      [] schema = "Baf2Sql" ->
            [fault |-> "",
             count |-> Cardinality({i \in DOMAIN data.frames : data.frames[i].MsMsType = 0})
                       + Cardinality({i \in DOMAIN data.frames : data.frames[i].MsMsType # 0})]
      [] OTHER -> [fault |-> "NameError", count |-> 0]

\* Spectra.Parent of a Baf2Sql MS/MS row: the last MS1 row before it
BafParent(frame) ==
    IF \E i \in 1..(frame - 1) : data.frames[i].MsMsType = 0
    THEN CHOOSE i \in 1..(frame - 1) :
            /\ data.frames[i].MsMsType = 0
            /\ \A k \in (i + 1)..(frame - 1) : data.frames[k].MsMsType # 0
    ELSE 0

\* parse_lcms_baf(baf_data, frame_start, frame_stop, ...), from frame on
RECURSIVE parse_lcms_baf(_, _, _, _)
parse_lcms_baf(frame, frame_stop, ms2_only, acc) ==
    IF frame >= frame_stop THEN acc
    ELSE LET f == data.frames[frame]
             nxt == IF f.empty THEN acc
                    ELSE IF f.MsMsType = 0 /\ ~ms2_only
                         THEN [acc EXCEPT !.parents =
                                  Append(@, Rec("MS1", 1, frame, 0, frame, 0, FALSE))]
                    ELSE IF f.MsMsType # 0
                         THEN [acc EXCEPT !.products =
                                  Append(@, Rec("MS2", 2, 0, BafParent(frame), frame, 0,
                                                FALSE))]
                    ELSE acc
         IN  parse_lcms_baf(frame + 1, frame_stop, ms2_only, nxt)

\* write_lcms_chunk_to_mzml: parent_scans and product_scans are bound only
\* in the branches for 'TDF' and 'Baf2Sql'; the write loops read them
write_lcms_chunk_of(schema, frame_start, frame_stop, sc) ==
    CASE schema = "TDF" -> write_lcms_chunk_to_mzml(frame_start, frame_stop, sc)
      [] schema = "Baf2Sql" ->
            LET p == parse_lcms_baf(frame_start, frame_stop, cfg.ms2_only, EmptyParse)
                w == WriteScans(p.parents, p.products, cfg.ms2_only, sc)
            IN  [fault |-> "", scan_count |-> w.scan_count, out |-> w.out,
                 decoded |-> <<>>]
      [] OTHER -> [fault |-> "NameError", scan_count |-> sc, out |-> <<>>,
                   decoded |-> <<>>]

InitSchema ==
    /\ \E n \in 1..MaxFrames :
         \E fs \in [1..n -> FrameSet(2)] :
            data = [frames |-> fs, precursors |-> <<>>, dia_windows |-> 1,
                    prm_targets |-> <<>>]
    /\ \E ms2 \in BOOLEAN :
         cfg = [mode |-> "centroid", ms2_only |-> ms2, exclude_mobility |-> TRUE,
                profile_bins |-> 0, chunk_size |-> 1]
    /\ \E schema \in SchemaTypes :
         fn = [op |-> "schema", SchemaType |-> schema,
               counted |-> FALSE, count |-> [fault |-> "", count |-> 0],
               written |-> FALSE,
               chunk |-> [fault |-> "", scan_count |-> 0, out |-> <<>>,
                          decoded |-> <<>>]]
    /\ pc = "Idle"
    /\ chunk = 0
    /\ chunk_list = <<>>
    /\ j = 0
    /\ scan_count = 0
    /\ num_of_spectra = 0 - 1
    /\ sink = <<>>
    /\ windows = <<>>
    /\ tmp_file = NoFile
    /\ out_file = NoFile
    /\ fault = ""

GetSpectraCount ==
    /\ fn.op = "schema" /\ ~fn.counted
    /\ fn' = [fn EXCEPT !.counted = TRUE,
                        !.count = get_spectra_count_of(fn.SchemaType)]
    /\ UNCHANGED runVars

\* one call over the whole table as one window
WriteLcmsChunk ==
    /\ fn.op = "schema" /\ ~fn.written
    /\ fn' = [fn EXCEPT !.written = TRUE,
                        !.chunk = write_lcms_chunk_of(fn.SchemaType, 1,
                                                      Len(data.frames) + 1, 0)]
    /\ UNCHANGED runVars

NextSchema == GetSpectraCount \/ WriteLcmsChunk

SpecSchema == InitSchema /\ [][NextSchema]_vars

\* C30: for each of the schemas TDF, TSF and Baf2Sql, get_spectra_count
\* returns a count and write_lcms_chunk_to_mzml parses and writes the window;
\* neither raises a fault, and every frame with data that the flags let
\* through leaves a spectrum.
C30_EverySchemaStreams ==
    fn.op = "schema" =>
        /\ fn.counted => fn.count.fault = ""
        /\ fn.written =>
             /\ fn.chunk.fault = ""
             /\ \A i \in DOMAIN data.frames :
                  (~data.frames[i].empty /\ data.frames[i].MsMsType = 0
                   /\ ~cfg.ms2_only)
                  => \E k \in DOMAIN fn.chunk.out : fn.chunk.out[k].rec.src = i

\* the same for the schemas that have a branch
C30_ExceptTsf ==
    (fn.op = "schema" /\ fn.SchemaType # "TSF") => C30_EverySchemaStreams

=============================================================================
